---- MODULE Spec2Model ----
(***************************************************************************)
(* Model of julia-repl-mcp.py, the MCP adapter that forwards tool calls    *)
(* to a per-directory Julia REPL server over a Unix domain socket.         *)
(*                                                                         *)
(* JSON values are modelled by their shape: a value the code only tests    *)
(* for truthiness, for being a mapping or for having a key is a record     *)
(* with a kind tag.  Paths are sequences of components, "/" is <<>>.       *)
(* Formatted messages are records [fmt, arg]: fmt is the literal text of   *)
(* the f-string and arg the value interpolated into it.                    *)
(***************************************************************************)
EXTENDS Integers, Sequences, FiniteSets, TLC

VARIABLES
  pc,          \* position of run_stdio_mode: "read" (blocked on standard input), "await" (blocked in
               \* readline on the backend socket), "next" (end of the loop body), "eof"
  lineNo,      \* number of lines read from standard input so far
  line,        \* the line being processed, or the last one processed
  out,         \* standard output: the numbers of the input lines that caused each output line, in order
  emitted,     \* the envelopes written to standard output for the line `line`
  markers,     \* file system: the directories that contain .mcp-repl.sock
  sockState,   \* what connecting to the marker yields: "listening" or "stale"
  pidKind,     \* content of .mcp-repl.pid next to the marker
  socket_path, \* handler local: result of find_socket_path, NotLooked before the call
  alive,       \* handler local: result of check_server_running, "unchecked" before the call
  handler,     \* the tool handler the dispatcher invoked for `line`, "none" if none
  sent,        \* the request written to the backend socket for `line`, NoRequest if none
  opened,      \* sockets created by send_to_julia_server while processing `line`
  openSocks,   \* sockets created by send_to_julia_server and not closed by it
  sendResult,  \* how the send_to_julia_server call for `line` ended: "none", "pending", "returned", "raised"
  reply,       \* what arrived on the backend socket for `line`, NoReply if nothing
  start_dir,   \* argument of find_socket_path in the locator specification
  content_length, \* HTTP mode: the Content-Length header of the POST being handled, "none" if none
  status       \* HTTP mode: the status codes of the responses written for the POST being handled

vars == <<pc, lineNo, line, out, emitted, markers, sockState, pidKind,
          socket_path, alive, handler, sent, opened, openSocks, sendResult,
          reply, start_dir, content_length, status>>

----------------------------------------------------------------------------
(* Bounds *)

MaxDepth == 2      \* depth of the modelled directory tree
MaxLines == 2      \* lines read from standard input
MaxMarkers == 2    \* marker files in the locator specification

----------------------------------------------------------------------------
(* Program constants *)

SOCKET_NAME == ".mcp-repl.sock"
PID_NAME == ".mcp-repl.pid"

ParseError == 0 - 32700
InvalidRequest == 0 - 32600
MethodNotFound == 0 - 32601
InvalidParams == 0 - 32602
InternalError == 0 - 32603

TOOL_NAMES == <<"exec_repl", "investigate_environment", "usage_instructions">>
TOOLS == {TOOL_NAMES[i] : i \in 1..Len(TOOL_NAMES)}

----------------------------------------------------------------------------
(* Paths *)

Comp == {"a", "b"}

RECURSIVE SeqsUpTo(_, _)
SeqsUpTo(S, n) ==
  IF n = 0 THEN {<<>>}
  ELSE LET shorter == SeqsUpTo(S, n - 1)
       IN  shorter \cup {Append(s, c) : s \in shorter, c \in S}

\* the directories of the modelled file system
Dirs == SeqsUpTo(Comp, MaxDepth)

\* the working directory of the adapter process
Cwd == <<"a">>

\* a directory argument as the caller writes it: absolute or relative, with
\* ".." and "." components allowed
StartDirs == [abs : BOOLEAN, comps : SeqsUpTo(Comp \cup {"..", "."}, MaxDepth)]

None == <<"None">>
NotLooked == <<"NotLooked">>

dirname(p) == IF p = <<>> THEN <<>> ELSE SubSeq(p, 1, Len(p) - 1)

join(dir, name) == Append(dir, name)

RECURSIVE normpath(_, _)
normpath(done, rest) ==
  IF rest = <<>> THEN done
  ELSE LET c == Head(rest)
       IN  IF c = "." THEN normpath(done, Tail(rest))
           ELSE IF c = ".." THEN normpath(dirname(done), Tail(rest))
           ELSE normpath(Append(done, c), Tail(rest))

abspath(d) == normpath(<<>>, IF d.abs THEN d.comps ELSE Cwd \o d.comps)

\* os.path.exists on a path of the modelled file system
exists(ms, p) ==
  /\ p # <<>>
  /\ p[Len(p)] = SOCKET_NAME
  /\ dirname(p) \in ms

----------------------------------------------------------------------------
(* Backend Locator *)

Diverged == <<"Diverged">>

\* find_socket_path with the root test ahead of the marker test
RECURSIVE walk_rootfirst(_, _, _)
walk_rootfirst(ms, current, fuel) ==
  IF fuel = 0 THEN Diverged
  ELSE LET sp == join(current, SOCKET_NAME)
           parent == dirname(current)
       IN  IF parent = current THEN None
           ELSE IF exists(ms, sp) THEN sp
           ELSE walk_rootfirst(ms, parent, fuel - 1)

\* the loop of find_socket_path; fuel counts the iterations left, and the
\* loop is given one iteration per directory on the chain from the start
\* directory to the root, so Diverged means it did not stop at the root
RECURSIVE walk(_, _, _)
walk(ms, current, fuel) ==
  IF fuel = 0 THEN Diverged
  ELSE LET sp == join(current, SOCKET_NAME)
       IN  IF exists(ms, sp) THEN sp
           ELSE LET parent == dirname(current)
                IN  IF parent = current THEN None
                    ELSE walk(ms, parent, fuel - 1)

\* a locator that searches from the adapter's working directory
find_socket_path_cwd(ms, d) ==
  LET current == Cwd
  IN  walk(ms, current, Len(current) + 1)

find_socket_path(ms, d) ==
  LET current == abspath(d)
  IN  walk(ms, current, Len(current) + 1)

PidKinds == {"absent", "empty", "nonnumeric", "zero", "negative", "toolarge",
             "nosuch", "foreign", "live"}

\* the content of the pid file in directory dir
PidContent(dir) == IF dir \in markers THEN pidKind ELSE "absent"

\* int(f.read().strip())
int_parse(kind) == IF kind \in {"empty", "nonnumeric"} THEN "ValueError" ELSE "int"

\* os.kill(pid, 0): what the probe can yield for each kind of identifier.
\* pid 0 probes the caller's own process group, a negative pid probes a
\* process group that may or may not exist, an identifier that does not fit
\* the C type raises OverflowError.
os_kill(kind) ==
  CASE kind = "zero" -> {"ok"}
    [] kind = "negative" -> {"ok", "ProcessLookupError", "PermissionError"}
    [] kind = "toolarge" -> {"OverflowError"}
    [] kind = "nosuch" -> {"ProcessLookupError"}
    [] kind = "foreign" -> {"PermissionError"}
    [] OTHER -> {"ok"}

\* check_server_running, given the outcome of the probe: "True", "False",
\* or the name of the exception that leaves the function
check_server_running(sp, probe) ==
  LET kind == PidContent(dirname(sp))
  IN  IF kind = "absent" THEN "False"
      ELSE IF int_parse(kind) = "ValueError" THEN "False"
      ELSE IF probe = "ok" THEN "True"
      ELSE IF probe \in {"ProcessLookupError", "PermissionError"} THEN "False"
      ELSE probe

----------------------------------------------------------------------------
(* Envelopes *)

Text(fmt, arg) == [fmt |-> fmt, arg |-> arg]
NoText == Text("", <<>>)

NoError == [code |-> 0, message |-> NoText]
NoResult == [shape |-> "absent", content |-> <<>>]
NoEnvelope == [id |-> "none", result |-> NoResult, error |-> NoError]

create_error_response(request_id, code, message) ==
  [id |-> request_id, result |-> NoResult,
   error |-> [code |-> code, message |-> message]]

create_success_response(request_id, result) ==
  [id |-> request_id, result |-> result, error |-> NoError]

HasError(env) == env.error # NoError
HasResult(env) == env.result # NoResult

\* the result the dispatcher builds around a handler's return value
ToolResult(result_text) ==
  [shape |-> "content", content |-> <<[type |-> "text", text |-> result_text]>>]

----------------------------------------------------------------------------
(* Input lines *)

RootDir == [abs |-> TRUE, comps |-> <<>>]

\* values of arguments.project_dir: absent, "", a falsy non-string (null, 0),
\* a truthy non-string (5, a list), or a string naming a directory
NoProjectDir == [kind |-> "absent", dir |-> RootDir]
ProjectDirs ==
  {NoProjectDir,
   [kind |-> "empty", dir |-> RootDir],
   [kind |-> "falsy", dir |-> RootDir],
   [kind |-> "nonstr", dir |-> RootDir],
   [kind |-> "str", dir |-> [abs |-> TRUE, comps |-> <<"a", "b">>]],
   [kind |-> "str", dir |-> [abs |-> FALSE, comps |-> <<"..", "b", "a">>]]}

\* values of arguments.expression: absent, "", a string, a truthy non-string
NoExpression == [kind |-> "absent", val |-> ""]
Expressions ==
  {NoExpression,
   [kind |-> "empty", val |-> ""],
   [kind |-> "str", val |-> "1+1"],
   [kind |-> "str", val |-> "x = 2"],
   [kind |-> "nonstr", val |-> "5"]}

\* params.arguments: absent, not a mapping, or a mapping
NoArguments == [kind |-> "absent", project_dir |-> NoProjectDir,
                expression |-> NoExpression]
BadArguments == [kind |-> "nonmapping", project_dir |-> NoProjectDir,
                 expression |-> NoExpression]
Arguments(tool) ==
  {NoArguments, BadArguments} \cup
  [kind : {"mapping"}, project_dir : ProjectDirs,
   expression : IF tool = "exec_repl" THEN Expressions
                ELSE {NoExpression, [kind |-> "str", val |-> "1+1"]}]

\* params.name: a registered name, names that differ from one, or absent
ToolNames == TOOLS \cup {"nonexistent", "Exec_Repl", "absent"}

NoParams == [kind |-> "absent", name |-> "absent", arguments |-> NoArguments]
BadParams == [kind |-> "nonmapping", name |-> "absent", arguments |-> NoArguments]
Params ==
  {NoParams, BadParams} \cup
  UNION {[kind : {"mapping"}, name : {n},
          arguments : IF n \in TOOLS THEN Arguments(n)
                      ELSE {NoArguments,
                            [kind |-> "mapping",
                             project_dir |-> [kind |-> "str", dir |-> [abs |-> TRUE, comps |-> <<"a", "b">>]],
                             expression |-> [kind |-> "str", val |-> "1+1"]]}]
         : n \in ToolNames}

\* the id field of a request: absent or a number
Ids == {"absent", "7"}

\* the method field: the four known methods, an unknown one, one that
\* differs from a known one by case, absent, or not a string
Methods == {"initialize", "notifications/initialized", "tools/list",
            "tools/call", "ping", "Tools/Call", "absent", "nonstring"}

Requests ==
  [kind : {"object"}, id : Ids, method : Methods \ {"tools/call"}, params : {NoParams}]
  \cup [kind : {"object"}, id : Ids, method : {"tools/call"}, params : Params]
  \cup [kind : {"object"}, id : Ids, method : {"ping", "absent"},
        params : {[kind |-> "mapping", name |-> "exec_repl",
                   arguments |-> [kind |-> "mapping",
                                  project_dir |-> [kind |-> "str", dir |-> [abs |-> TRUE, comps |-> <<"a", "b">>]],
                                  expression |-> [kind |-> "str", val |-> "1+1"]]]}]

\* a line of standard input: blank after strip(), not JSON, JSON that is not
\* an object, or a JSON object
NoLine == [kind |-> "none", id |-> "absent", method |-> "absent", params |-> NoParams]
OtherLines == [kind : {"blank", "badjson", "nonobject"}, id : {"absent"},
               method : {"absent"}, params : {NoParams}]
Lines == OtherLines \cup Requests

----------------------------------------------------------------------------
(* Backend replies *)

\* what arrives on the backend socket after the request was written: the
\* peer closes without a line, a line that is not JSON, or a JSON value of
\* one of the shapes the handlers distinguish
ReplyKinds ==
  {"close", "garbage", "nonobject",
   "error_message", "error_nomessage", "error_nonmapping",
   "result_absent", "result_null", "result_string", "result_list",
   "result_nocontent", "content_notlist", "content_empty",
   "item_notmapping", "item_notext", "item_text", "item_text_nonstr"}

Replies ==
  [k : ReplyKinds \ {"item_text", "error_message"}, v : {""}]
  \cup [k : {"item_text"}, v : {"2", ""}]
  \cup [k : {"error_message"}, v : {"UndefVarError"}]

NoReply == [k |-> "none", v |-> ""]

----------------------------------------------------------------------------
(* Transport Client *)

NoRequest == [id |-> 0, method |-> "", name |-> "", arguments |-> {}]

\* send_to_julia_server up to the blocking readline: the socket is created,
\* then connect either succeeds (the request is written and flushed) or
\* raises an OSError, which the except clause turns into Exception.  The
\* socket is not closed on the failing path.
send_connect(state) ==
  IF state = "listening"
  THEN [st |-> "pending", exc |-> "", created |-> 1, closed |-> 0]
  ELSE [st |-> "raised", exc |-> "Exception: Socket error", created |-> 1, closed |-> 0]

\* send_to_julia_server from the readline on: an empty read raises
\* ConnectionError, turned into Exception by the except clause; a line that
\* json.loads rejects raises JSONDecodeError, which is not an OSError and
\* leaves the function as it is; only the path that returns the response
\* closes the socket.
send_receive(response_line) ==
  CASE response_line.k = "close" ->
         [st |-> "raised", exc |-> "Exception: Socket error", closed |-> 0]
    [] response_line.k = "garbage" ->
         [st |-> "raised", exc |-> "JSONDecodeError", closed |-> 0]
    [] OTHER ->
         [st |-> "returned", exc |-> "", closed |-> 1]

----------------------------------------------------------------------------
(* Tool handlers *)

Return(text) == [st |-> "return", text |-> text, exc |-> "",
                 socket_path |-> NotLooked, alive |-> "unchecked", request |-> NoRequest]
Raise(exc, sp, al) == [st |-> "raise", text |-> NoText, exc |-> exc,
                       socket_path |-> sp, alive |-> al, request |-> NoRequest]

\* "not x" for a value of arguments
Falsy(v) == v.kind \in {"absent", "empty", "falsy"}

\* a directory argument as the caller wrote it
PathArg(d) == (IF d.abs THEN <<"/">> ELSE <<>>) \o d.comps

CommunicationText(exc) == Text("Error communicating with Julia server: {e}", <<exc>>)

\* handlers that connect whatever the liveness check returned
resolve_unchecked(project_dir, probe, not_found, not_running, julia_request) ==
  IF project_dir.kind # "str"
  THEN Raise("TypeError", NotLooked, "unchecked")
  ELSE LET sp == find_socket_path(markers, project_dir.dir)
       IN  IF sp = None
           THEN [Return(not_found) EXCEPT !.socket_path = sp]
           ELSE LET al == check_server_running(sp, probe)
                IN  IF al \notin {"True", "False"}
                    THEN Raise(al, sp, al)
                    ELSE [st |-> "send", text |-> NoText, exc |-> "",
                          socket_path |-> sp, alive |-> al, request |-> julia_request]

\* the steps the three handlers share after validating their arguments:
\* locate the socket, check liveness, and hand the request to the transport
resolve(project_dir, probe, not_found, not_running, julia_request) ==
  IF project_dir.kind # "str"
  THEN Raise("TypeError", NotLooked, "unchecked")   \* os.path.abspath of a non-string
  ELSE LET sp == find_socket_path(markers, project_dir.dir)
       IN  IF sp = None
           THEN [Return(not_found) EXCEPT !.socket_path = sp]
           ELSE LET al == check_server_running(sp, probe)
                IN  IF al = "False"
                    THEN [Return(not_running) EXCEPT !.socket_path = sp, !.alive = al]
                    ELSE IF al # "True"
                    THEN Raise(al, sp, al)
                    ELSE [st |-> "send", text |-> NoText, exc |-> "",
                          socket_path |-> sp, alive |-> al, request |-> julia_request]

JuliaRequest(name, arguments) ==
  [id |-> 1, method |-> "tools/call", name |-> name, arguments |-> arguments]

handle_exec_repl(args, probe) ==
  IF args.kind = "nonmapping" THEN Raise("AttributeError", NotLooked, "unchecked")
  ELSE LET project_dir == args.project_dir
           expression == args.expression
       IN  IF Falsy(project_dir)
           THEN Return(Text("Error: project_dir parameter is required", <<>>))
           ELSE IF Falsy(expression)
           THEN Return(Text("Error: expression parameter is required", <<>>))
           ELSE resolve(project_dir, probe,
                  Text("Error: MCP REPL server not found in {project_dir}. Start the server with: ...",
                       PathArg(project_dir.dir)),
                  Text("Error: MCP REPL server not running (socket exists but process dead). Start the server with: ...",
                       <<>>),
                  JuliaRequest("exec_repl", {[key |-> "expression", val |-> expression]}))

handle_investigate_environment(args, probe) ==
  IF args.kind = "nonmapping" THEN Raise("AttributeError", NotLooked, "unchecked")
  ELSE LET project_dir == args.project_dir
       IN  IF Falsy(project_dir)
           THEN Return(Text("Error: project_dir parameter is required", <<>>))
           ELSE resolve(project_dir, probe,
                  Text("Error: MCP REPL server not found in {project_dir}", PathArg(project_dir.dir)),
                  Text("Error: MCP REPL server not running", <<>>),
                  JuliaRequest("investigate_environment", {}))

\* a handler copied from handle_investigate_environment with its backend
\* operation left unchanged
handle_usage_instructions_copied(args, probe) ==
  IF args.kind = "nonmapping" THEN Raise("AttributeError", NotLooked, "unchecked")
  ELSE LET project_dir == args.project_dir
       IN  IF Falsy(project_dir)
           THEN Return(Text("Error: project_dir parameter is required", <<>>))
           ELSE resolve(project_dir, probe,
                  Text("Error: MCP REPL server not found in {project_dir}", PathArg(project_dir.dir)),
                  Text("Error: MCP REPL server not running", <<>>),
                  JuliaRequest("investigate_environment", {}))

handle_usage_instructions(args, probe) ==
  IF args.kind = "nonmapping" THEN Raise("AttributeError", NotLooked, "unchecked")
  ELSE LET project_dir == args.project_dir
       IN  IF Falsy(project_dir)
           THEN Return(Text("Error: project_dir parameter is required", <<>>))
           ELSE resolve(project_dir, probe,
                  Text("Error: MCP REPL server not found in {project_dir}", PathArg(project_dir.dir)),
                  Text("Error: MCP REPL server not running", <<>>),
                  JuliaRequest("usage_instructions", {}))

\* tool["handler"](args)
call_handler(tool, args, probe) ==
  CASE tool = "exec_repl" -> handle_exec_repl(args, probe)
    [] tool = "investigate_environment" -> handle_investigate_environment(args, probe)
    [] OTHER -> handle_usage_instructions(args, probe)

\* handlers that return str(response["result"]) whatever its shape
unwrap_stringify(response) ==
  CASE response.k = "nonobject" -> [st |-> "raise", text |-> NoText, exc |-> "TypeError"]
    [] response.k = "error_message" ->
         [st |-> "return", text |-> Text("Error from Julia server: {message}", <<response.v>>), exc |-> ""]
    [] response.k = "error_nomessage" -> [st |-> "raise", text |-> NoText, exc |-> "KeyError"]
    [] response.k = "error_nonmapping" -> [st |-> "raise", text |-> NoText, exc |-> "TypeError"]
    [] response.k = "result_absent" ->
         [st |-> "return", text |-> Text("{}", <<"">>), exc |-> ""]
    [] response.k = "result_null" -> [st |-> "raise", text |-> NoText, exc |-> "TypeError"]
    [] response.k \in {"result_string", "result_list", "result_nocontent",
                       "content_notlist", "content_empty", "item_text"} ->
         [st |-> "return", text |-> Text("str({result})", <<response.k>>), exc |-> ""]
    [] response.k = "item_notmapping" -> [st |-> "raise", text |-> NoText, exc |-> "AttributeError"]
    [] response.k = "item_notext" ->
         [st |-> "return", text |-> Text("{}", <<"">>), exc |-> ""]
    [] response.k = "item_text" ->
         [st |-> "return", text |-> Text("{}", <<response.v>>), exc |-> ""]
    [] OTHER ->
         [st |-> "return", text |-> Text("{nonstr}", <<"5">>), exc |-> ""]

\* the handlers' treatment of the response the transport returned: what
\* the try block returns, or the exception it raises, which the handler's
\* own except clause turns into a string
unwrap(response) ==
  CASE response.k = "nonobject" -> [st |-> "raise", text |-> NoText, exc |-> "TypeError"]
    [] response.k = "error_message" ->
         [st |-> "return", text |-> Text("Error from Julia server: {message}", <<response.v>>), exc |-> ""]
    [] response.k = "error_nomessage" -> [st |-> "raise", text |-> NoText, exc |-> "KeyError"]
    [] response.k = "error_nonmapping" -> [st |-> "raise", text |-> NoText, exc |-> "TypeError"]
    [] response.k = "result_absent" ->
         [st |-> "return", text |-> Text("{}", <<"">>), exc |-> ""]
    [] response.k = "result_null" -> [st |-> "raise", text |-> NoText, exc |-> "TypeError"]
    [] response.k \in {"result_string", "result_list", "result_nocontent",
                       "content_notlist", "content_empty"} ->
         [st |-> "return", text |-> Text("str({result})", <<response.k>>), exc |-> ""]
    [] response.k = "item_notmapping" -> [st |-> "raise", text |-> NoText, exc |-> "AttributeError"]
    [] response.k = "item_notext" ->
         [st |-> "return", text |-> Text("{}", <<"">>), exc |-> ""]
    [] response.k = "item_text" ->
         [st |-> "return", text |-> Text("{}", <<response.v>>), exc |-> ""]
    [] OTHER ->
         [st |-> "return", text |-> Text("{nonstr}", <<"5">>), exc |-> ""]

\* a handler whose except clause catches the transport's fault only
handler_finish_narrow(sr, response) ==
  IF sr.st = "raised"
  THEN [st |-> "return", text |-> CommunicationText(sr.exc), exc |-> ""]
  ELSE unwrap(response)

\* the tail of a handler, from the return of send_to_julia_server on: the
\* except clause of the handler catches every Exception of the try block
handler_finish(sr, response) ==
  IF sr.st = "raised"
  THEN [st |-> "return", text |-> CommunicationText(sr.exc), exc |-> ""]
  ELSE LET u == unwrap(response)
       IN  IF u.st = "raise"
           THEN [st |-> "return", text |-> CommunicationText(u.exc), exc |-> ""]
           ELSE u

----------------------------------------------------------------------------
(* MCP Dispatcher *)

InitializeResult ==
  [shape |-> "initialize",
   content |-> <<[type |-> "protocolVersion", text |-> Text("2024-11-05", <<>>)],
                 [type |-> "serverInfo", text |-> Text("julia-mcp-adapter", <<"1.0.0">>)]>>]

ToolListResult ==
  [shape |-> "tools",
   content |-> [i \in 1..Len(TOOL_NAMES) |-> [type |-> "tool", text |-> Text(TOOL_NAMES[i], <<>>)]]]

NoCall == [st |-> "none", text |-> NoText, exc |-> "",
           socket_path |-> NotLooked, alive |-> "unchecked", request |-> NoRequest]

Dispatched(st, response, exc, tool, call) ==
  [st |-> st, response |-> response, exc |-> exc, handler |-> tool, call |-> call]

\* request.get("id")
RequestId(request) == IF request.id = "absent" THEN "null" ELSE request.id

\* request.get("method"), as it prints
MethodOf(request) == IF request.method = "absent" THEN "None" ELSE request.method

\* params.get("name", "")
ToolName(params) ==
  IF params.kind = "absent" \/ params.name = "absent" THEN "" ELSE params.name

\* params.get("arguments", {})
ArgumentsOf(params) == IF params.kind = "absent" THEN NoArguments ELSE params.arguments

\* next((t for t in TOOLS if t["name"] == tool_name), None)
lookup_tool(tool_name) == IF tool_name \in TOOLS THEN tool_name ELSE "None"

\* the rest of the tools/call branch once the handler has returned or raised
tools_call_finish(request, call) ==
  IF call.st = "return"
  THEN create_success_response(RequestId(request), ToolResult(call.text))
  ELSE create_error_response(RequestId(request), InternalError,
         Text("Tool execution error: {e}", <<call.exc>>))

\* the tools/call branch of process_mcp_request, up to the point where the
\* handler blocks on the backend
tools_call(request, probe) ==
  LET request_id == RequestId(request)
      params == request.params
  IN  IF params.kind = "nonmapping"
      THEN Dispatched("raise", NoEnvelope, "AttributeError", "none", NoCall)
      ELSE LET tool_name == ToolName(params)
               tool == lookup_tool(tool_name)
           IN  IF tool = "None"
               THEN Dispatched("response",
                      create_error_response(request_id, InvalidParams,
                        Text("Tool not found: {tool_name}", <<tool_name>>)),
                      "", "none", NoCall)
               ELSE LET call == call_handler(tool, ArgumentsOf(params), probe)
                    IN  IF call.st = "send"
                        THEN Dispatched("send", NoEnvelope, "", tool, call)
                        ELSE Dispatched("response", tools_call_finish(request, call),
                                        "", tool, call)

\* a dispatcher that compares method names without regard to case
process_mcp_request_nocase(request, probe) ==
  LET method == request.method
      request_id == RequestId(request)
  IN  CASE method = "initialize" ->
             Dispatched("response", create_success_response(request_id, InitializeResult),
                        "", "none", NoCall)
        [] method = "notifications/initialized" ->
             Dispatched("none", NoEnvelope, "", "none", NoCall)
        [] method = "tools/list" ->
             Dispatched("response", create_success_response(request_id, ToolListResult),
                        "", "none", NoCall)
        [] method \in {"tools/call", "Tools/Call"} -> tools_call(request, probe)
        [] OTHER ->
             Dispatched("response",
               create_error_response(request_id, MethodNotFound,
                 Text("Method not found: {method}", <<MethodOf(request)>>)),
               "", "none", NoCall)

\* a dispatcher that acknowledges the initialized notification
process_mcp_request_acknotif(request, probe) ==
  LET method == request.method
      request_id == RequestId(request)
  IN  CASE method = "initialize" ->
             Dispatched("response", create_success_response(request_id, InitializeResult),
                        "", "none", NoCall)
        [] method = "notifications/initialized" ->
             Dispatched("response",
               create_success_response(request_id, [shape |-> "empty", content |-> <<>>]),
               "", "none", NoCall)
        [] method = "tools/list" ->
             Dispatched("response", create_success_response(request_id, ToolListResult),
                        "", "none", NoCall)
        [] method = "tools/call" -> tools_call(request, probe)
        [] OTHER ->
             Dispatched("response",
               create_error_response(request_id, MethodNotFound,
                 Text("Method not found: {method}", <<MethodOf(request)>>)),
               "", "none", NoCall)

\* process_mcp_request up to the point where a handler blocks on the
\* backend: "response" with the envelope returned, "none" for a
\* notification, "raise" when an exception leaves the dispatcher, "send"
\* when the handler hands a request to the transport
process_mcp_request(request, probe) ==
  LET method == request.method
      request_id == RequestId(request)
  IN  CASE method = "initialize" ->
             Dispatched("response", create_success_response(request_id, InitializeResult),
                        "", "none", NoCall)
        [] method = "notifications/initialized" ->
             Dispatched("none", NoEnvelope, "", "none", NoCall)
        [] method = "tools/list" ->
             Dispatched("response", create_success_response(request_id, ToolListResult),
                        "", "none", NoCall)
        [] method = "tools/call" -> tools_call(request, probe)
        [] OTHER ->
             Dispatched("response",
               create_error_response(request_id, MethodNotFound,
                 Text("Method not found: {method}", <<MethodOf(request)>>)),
               "", "none", NoCall)

----------------------------------------------------------------------------
(* Stdio front end *)

\* what the body of the loop of run_stdio_mode prints for a line whose
\* processing ended without blocking: nothing for a blank line and for a
\* notification, the parse-error envelope when json.loads fails, the
\* internal-error envelope when an exception leaves process_mcp_request,
\* the response otherwise.  Uncaught stands for an exception that leaves the
\* try statement and ends the loop; the two except clauses leave none.
Printed(envs) == [uncaught |-> FALSE, envs |-> envs]
Uncaught == [uncaught |-> TRUE, envs |-> <<>>]

\* a loop body without the "except Exception" clause
stdio_output_nogeneric(l, d) ==
  CASE l.kind = "blank" -> Printed(<<>>)
    [] l.kind = "badjson" ->
         Printed(<<create_error_response("null", ParseError,
                     Text("Parse error: {e}", <<"JSONDecodeError">>))>>)
    [] l.kind = "nonobject" -> Uncaught
    [] d.st = "raise" -> Uncaught
    [] d.st = "none" -> Printed(<<>>)
    [] OTHER -> Printed(<<d.response>>)

\* a loop body whose "except Exception" clause prints nothing
stdio_output_swallow(l, d) ==
  CASE l.kind = "blank" -> Printed(<<>>)
    [] l.kind = "badjson" ->
         Printed(<<create_error_response("null", ParseError,
                     Text("Parse error: {e}", <<"JSONDecodeError">>))>>)
    [] l.kind = "nonobject" -> Printed(<<>>)
    [] d.st = "raise" -> Printed(<<>>)
    [] d.st = "none" -> Printed(<<>>)
    [] OTHER -> Printed(<<d.response>>)

stdio_output(l, d) ==
  CASE l.kind = "blank" -> Printed(<<>>)
    [] l.kind = "badjson" ->
         Printed(<<create_error_response("null", ParseError,
                     Text("Parse error: {e}", <<"JSONDecodeError">>))>>)
    [] l.kind = "nonobject" ->
         Printed(<<create_error_response("null", InternalError,
                     Text("Internal error: {e}", <<"AttributeError">>))>>)
    [] d.st = "raise" ->
         Printed(<<create_error_response("null", InternalError,
                     Text("Internal error: {e}", <<d.exc>>))>>)
    [] d.st = "none" -> Printed(<<>>)
    [] OTHER -> Printed(<<d.response>>)

\* output that is queued in front of what was written before
print_front(stdout, envs, n) == [i \in 1..Len(envs) |-> n] \o stdout

\* print(json.dumps(response), flush=True) for each envelope of envs, in
\* order, while processing line number n
print(stdout, envs, n) == stdout \o [i \in 1..Len(envs) |-> n]

\* the loop reads the next line and processes it up to the next read, or up
\* to the readline on the backend socket
StdinLine(l, probe) ==
  /\ pc = "read"
  /\ lineNo < MaxLines
  /\ lineNo' = lineNo + 1
  /\ line' = l
  /\ LET d == IF l.kind = "object" THEN process_mcp_request(l, probe)
              ELSE Dispatched("none", NoEnvelope, "", "none", NoCall)
     IN  /\ handler' = d.handler
         /\ socket_path' = d.call.socket_path
         /\ alive' = d.call.alive
         /\ IF d.st = "send"
            THEN LET c == send_connect(sockState)
                 IN  /\ opened' = c.created
                     /\ openSocks' = openSocks + c.created - c.closed
                     /\ sendResult' = c.st
                     /\ IF c.st = "pending"
                        THEN /\ pc' = "await"
                             /\ sent' = d.call.request
                             /\ emitted' = <<>>
                             /\ out' = out
                        ELSE LET call == handler_finish(c, NoReply)
                                 o == stdio_output(l,
                                        Dispatched("response", tools_call_finish(l, call),
                                                   "", d.handler, d.call))
                             IN  /\ pc' = IF o.uncaught THEN "crashed" ELSE "next"
                                 /\ sent' = NoRequest
                                 /\ emitted' = o.envs
                                 /\ out' = print(out, o.envs, lineNo + 1)
            ELSE LET o == stdio_output(l, d)
                 IN  /\ opened' = 0
                     /\ sendResult' = "none"
                     /\ sent' = NoRequest
                     /\ pc' = IF o.uncaught THEN "crashed" ELSE "next"
                     /\ emitted' = o.envs
                     /\ out' = print(out, o.envs, lineNo + 1)
                     /\ UNCHANGED openSocks
  /\ reply' = NoReply
  /\ UNCHANGED <<markers, sockState, pidKind, start_dir,
                 content_length, status>>

\* the backend answers the request in flight (or closes the connection):
\* readline returns, send_to_julia_server returns or raises, the handler
\* and the dispatcher finish, and the loop prints the response
BackendReply(r) ==
  /\ pc = "await"
  /\ LET sr == send_receive(r)
         call == handler_finish(sr, r)
         o == stdio_output(line,
                Dispatched("response", tools_call_finish(line, call), "", handler, NoCall))
     IN  /\ sendResult' = sr.st
         /\ openSocks' = openSocks - sr.closed
         /\ pc' = IF o.uncaught THEN "crashed" ELSE "next"
         /\ emitted' = o.envs
         /\ out' = print(out, o.envs, lineNo)
  /\ reply' = r
  /\ UNCHANGED <<lineNo, line, markers, sockState, pidKind, socket_path, alive,
                 handler, sent, opened, start_dir,
                 content_length, status>>

\* the loop body ends: the locals of the iteration are dropped and the for
\* statement blocks on standard input again
LoopNext ==
  /\ pc = "next"
  /\ pc' = "read"
  /\ line' = NoLine
  /\ emitted' = <<>>
  /\ socket_path' = NotLooked
  /\ alive' = "unchecked"
  /\ handler' = "none"
  /\ sent' = NoRequest
  /\ opened' = 0
  /\ sendResult' = "none"
  /\ reply' = NoReply
  /\ content_length' = "none"
  /\ status' = <<>>
  /\ UNCHANGED <<lineNo, out, markers, sockState, pidKind, openSocks, start_dir>>

\* standard input reaches end-of-stream: the loop ends
StdinEof ==
  /\ pc = "read"
  /\ pc' = "eof"
  /\ UNCHANGED <<lineNo, line, out, emitted, markers, sockState, pidKind,
                 socket_path, alive, handler, sent, opened, openSocks,
                 sendResult, reply, start_dir,
                 content_length, status>>

----------------------------------------------------------------------------
(* Environment: the file system and the backend process *)

SockStates == {"listening", "stale"}

\* the directories a backend is started in
InstallDirs == SeqsUpTo(Comp, MaxDepth - 1)

\* between two tool calls a backend is started, restarted, killed or moved:
\* the marker is in directory d, connecting to it yields s, and the pid file
\* holds k
EnvInstall(d, s, k) ==
  /\ pc = "read"
  /\ <<markers, sockState, pidKind>> # <<{d}, s, k>>
  /\ markers' = {d}
  /\ sockState' = s
  /\ pidKind' = k
  /\ UNCHANGED <<pc, lineNo, line, out, emitted, socket_path, alive, handler,
                 sent, opened, openSocks, sendResult, reply, start_dir,
                 content_length, status>>

\* between two tool calls the marker and the pid file are removed
EnvRemove ==
  /\ pc = "read"
  /\ markers # {}
  /\ markers' = {}
  /\ sockState' = "stale"
  /\ pidKind' = "absent"
  /\ UNCHANGED <<pc, lineNo, line, out, emitted, socket_path, alive, handler,
                 sent, opened, openSocks, sendResult, reply, start_dir,
                 content_length, status>>

----------------------------------------------------------------------------
(* Specification of the adapter in stdio mode *)

Init ==
  /\ pc = "read"
  /\ lineNo = 0
  /\ line = NoLine
  /\ out = <<>>
  /\ emitted = <<>>
  /\ markers = {}
  /\ sockState = "stale"
  /\ pidKind = "absent"
  /\ socket_path = NotLooked
  /\ alive = "unchecked"
  /\ handler = "none"
  /\ sent = NoRequest
  /\ opened = 0
  /\ openSocks = 0
  /\ sendResult = "none"
  /\ reply = NoReply
  /\ start_dir = RootDir
  /\ content_length = "none"
  /\ status = <<>>

Next ==
  \/ \E l \in Lines, probe \in os_kill(pidKind) : StdinLine(l, probe)
  \/ \E r \in Replies : BackendReply(r)
  \/ LoopNext
  \/ StdinEof
  \/ \E d \in InstallDirs, s \in SockStates, k \in PidKinds : EnvInstall(d, s, k)
  \/ EnvRemove

Spec == Init /\ [][Next]_vars

\* The same specification for progress: the loop goes on to its next
\* statement, standard input delivers a line or its end, and every backend
\* round trip ends with a line or a closed connection
StdinInput ==
  \/ StdinEof
  \/ \E l \in Lines, probe \in os_kill(pidKind) : StdinLine(l, probe)

Fairness ==
  /\ WF_vars(LoopNext)
  /\ WF_vars(StdinInput)
  /\ WF_vars(\E r \in Replies : BackendReply(r))

\* one pid file content for each way the liveness check can end: it
\* returns True, it returns False, it raises
FairPidKinds == {"live", "absent", "toolarge"}

NextFair ==
  \/ \E l \in Lines, probe \in os_kill(pidKind) : StdinLine(l, probe)
  \/ \E r \in Replies : BackendReply(r)
  \/ LoopNext
  \/ StdinEof
  \/ \E d \in InstallDirs, s \in SockStates, k \in FairPidKinds : EnvInstall(d, s, k)
  \/ EnvRemove

FairSpec == Init /\ [][NextFair]_vars /\ Fairness

----------------------------------------------------------------------------
(* HTTP front end: MCPHTTPHandler.do_POST under serve_forever.  pc = "read" *)
(* is the server waiting for a request, "await" the handler blocked on the *)
(* backend, "next" the return of do_POST; lineNo counts the requests.      *)

\* the Content-Length header of a POST: missing, "0", text that int()
\* rejects, or the length of the body that follows
ContentLengths == {"missing", "zero", "nonnumeric", "positive"}

\* what rfile.read(content_length) yields: bytes that are not UTF-8, or text
\* of one of the kinds of a line of standard input
Undecodable == [kind |-> "undecodable", id |-> "absent", method |-> "absent", params |-> NoParams]
Bodies == Lines \cup {Undecodable}

\* send_json_response(response, status)
Answered(code, response) == [status |-> <<code>>, envs |-> <<response>>]
Unanswered == [status |-> <<>>, envs |-> <<>>]

\* what do_POST writes for a request whose handling ended without blocking:
\* int() of the header, the test for 0, decode, json.loads and
\* process_mcp_request in this order, then the two except clauses
do_POST_output(cl, body, d) ==
  CASE cl = "nonnumeric" ->
         Answered(500, create_error_response("null", InternalError,
                         Text("Internal error: {e}", <<"ValueError">>)))
    [] cl \in {"missing", "zero"} ->
         Answered(400, create_error_response("null", InvalidRequest,
                         Text("Empty request body", <<>>)))
    [] body.kind = "undecodable" ->
         Answered(500, create_error_response("null", InternalError,
                         Text("Internal error: {e}", <<"UnicodeDecodeError">>)))
    [] body.kind \in {"blank", "badjson"} ->
         Answered(400, create_error_response("null", ParseError,
                         Text("Parse error: {e}", <<"JSONDecodeError">>)))
    [] body.kind = "nonobject" ->
         Answered(500, create_error_response("null", InternalError,
                         Text("Internal error: {e}", <<"AttributeError">>)))
    [] d.st = "raise" ->
         Answered(500, create_error_response("null", InternalError,
                         Text("Internal error: {e}", <<d.exc>>)))
    [] d.st = "none" -> Unanswered
    [] OTHER -> Answered(200, d.response)

\* a POST arrives and do_POST runs up to its return, or up to the readline
\* on the backend socket; the body is read only when the header is a
\* non-zero number
do_POST(cl, body, probe) ==
  /\ pc = "read"
  /\ lineNo < MaxLines
  /\ (body = NoLine) <=> (cl # "positive")
  /\ lineNo' = lineNo + 1
  /\ content_length' = cl
  /\ line' = body
  /\ LET d == IF body.kind = "object" THEN process_mcp_request(body, probe)
              ELSE Dispatched("none", NoEnvelope, "", "none", NoCall)
     IN  /\ handler' = d.handler
         /\ socket_path' = d.call.socket_path
         /\ alive' = d.call.alive
         /\ IF d.st = "send"
            THEN LET c == send_connect(sockState)
                 IN  /\ opened' = c.created
                     /\ openSocks' = openSocks + c.created - c.closed
                     /\ sendResult' = c.st
                     /\ IF c.st = "pending"
                        THEN /\ pc' = "await"
                             /\ sent' = d.call.request
                             /\ emitted' = <<>>
                             /\ status' = <<>>
                             /\ out' = out
                        ELSE LET call == handler_finish(c, NoReply)
                                 o == do_POST_output(cl, body,
                                        Dispatched("response", tools_call_finish(body, call),
                                                   "", d.handler, d.call))
                             IN  /\ pc' = "next"
                                 /\ sent' = NoRequest
                                 /\ emitted' = o.envs
                                 /\ status' = o.status
                                 /\ out' = print(out, o.envs, lineNo + 1)
            ELSE LET o == do_POST_output(cl, body, d)
                 IN  /\ opened' = 0
                     /\ sendResult' = "none"
                     /\ sent' = NoRequest
                     /\ pc' = "next"
                     /\ emitted' = o.envs
                     /\ status' = o.status
                     /\ out' = print(out, o.envs, lineNo + 1)
                     /\ UNCHANGED openSocks
  /\ reply' = NoReply
  /\ UNCHANGED <<markers, sockState, pidKind, start_dir>>

\* the backend answers the request in flight (or closes the connection) and
\* do_POST runs to its return
do_POST_resume(r) ==
  /\ pc = "await"
  /\ LET sr == send_receive(r)
         call == handler_finish(sr, r)
         o == do_POST_output(content_length, line,
                Dispatched("response", tools_call_finish(line, call), "", handler, NoCall))
     IN  /\ sendResult' = sr.st
         /\ openSocks' = openSocks - sr.closed
         /\ pc' = "next"
         /\ emitted' = o.envs
         /\ status' = o.status
         /\ out' = print(out, o.envs, lineNo)
  /\ reply' = r
  /\ UNCHANGED <<lineNo, line, markers, sockState, pidKind, socket_path, alive,
                 handler, sent, opened, start_dir, content_length>>

NextHttp ==
  \/ \E cl \in ContentLengths, body \in Bodies \cup {NoLine}, probe \in os_kill(pidKind) :
       do_POST(cl, body, probe)
  \/ \E r \in Replies : do_POST_resume(r)
  \/ LoopNext
  \/ \E d \in InstallDirs, s \in SockStates, k \in PidKinds : EnvInstall(d, s, k)
  \/ EnvRemove

SpecHttp == Init /\ [][NextHttp]_vars

----------------------------------------------------------------------------
(* Specification of the locator: find_socket_path applied to every start   *)
(* directory over every placement of at most MaxMarkers markers            *)

MarkerSets == {ms \in SUBSET Dirs : Cardinality(ms) <= MaxMarkers}

InitFind ==
  /\ pc = "find"
  /\ markers \in MarkerSets
  /\ start_dir \in StartDirs
  /\ socket_path = NotLooked
  /\ lineNo = 0
  /\ line = NoLine
  /\ out = <<>>
  /\ emitted = <<>>
  /\ sockState = "stale"
  /\ pidKind = "absent"
  /\ alive = "unchecked"
  /\ handler = "none"
  /\ sent = NoRequest
  /\ opened = 0
  /\ openSocks = 0
  /\ sendResult = "none"
  /\ reply = NoReply
  /\ content_length = "none"
  /\ status = <<>>

FindCall ==
  /\ pc = "find"
  /\ socket_path' = find_socket_path(markers, start_dir)
  /\ pc' = "found"
  /\ UNCHANGED <<lineNo, line, out, emitted, markers, sockState, pidKind, alive,
                 handler, sent, opened, openSocks, sendResult, reply, start_dir,
                 content_length, status>>

NextFind == FindCall

SpecFind == InitFind /\ [][NextFind]_vars

----------------------------------------------------------------------------
(* Properties *)

IsRequest(l) == l.kind = "object"
IsToolsCall(l) == IsRequest(l) /\ l.method = "tools/call"
NamesRegisteredTool(l) ==
  /\ IsToolsCall(l)
  /\ l.params.kind = "mapping"
  /\ l.params.name \in {"exec_repl", "investigate_environment", "usage_instructions"}
IsNotification(l) == IsRequest(l) /\ l.method = "notifications/initialized"

\* a success envelope with a single-element content list of type "text"
IsTextResult(env) ==
  /\ ~HasError(env)
  /\ env.result.shape = "content"
  /\ Len(env.result.content) = 1
  /\ env.result.content[1].type = "text"

\* an error envelope with the given code and no result
IsErrorWith(env, code) ==
  /\ HasError(env)
  /\ ~HasResult(env)
  /\ env.error.code = code

ErrorReplies == {"error_message", "error_nomessage", "error_nonmapping"}

\* no handler ran and the backend was neither looked up nor contacted
NoBackendAccess ==
  /\ handler = "none"
  /\ socket_path = NotLooked
  /\ alive = "unchecked"
  /\ opened = 0
  /\ sent = NoRequest

\* C1: a tools/call that names a registered tool and finds the backend
\* missing (no marker on the chain of project_dir), dead (the liveness
\* check returned false) or answering with an envelope that has an error
\* field yields one success envelope with a single text item, never an
\* error envelope.
C1_Case ==
  /\ pc = "next"
  /\ NamesRegisteredTool(line)
  /\ \/ socket_path = None
     \/ alive = "False"
     \/ reply.k \in ErrorReplies

C1_ToolDomainErrorsAreResults ==
  C1_Case => Len(emitted) = 1 /\ IsTextResult(emitted[1])

C1_Witness ==
  /\ C1_Case
  /\ reply.k = "error_nomessage"
  /\ Len(emitted) = 1
  /\ IsTextResult(emitted[1])

\* C2: a tools/call to a registered tool whose arguments are missing or
\* malformed (arguments not a mapping, project_dir absent, empty or not a
\* string, expression absent or empty for exec_repl) yields a success
\* envelope with a text item, and for exec_repl with project_dir present and
\* expression absent the text "Error: expression parameter is required".
MalformedArguments(l) ==
  LET a == l.params.arguments
  IN  \/ a.kind # "mapping"
      \/ a.project_dir.kind # "str"
      \/ l.params.name = "exec_repl" /\ a.expression.kind \in {"absent", "empty"}

C2_MalformedArgumentsAreResults ==
  (pc = "next" /\ NamesRegisteredTool(line) /\ MalformedArguments(line)) =>
    /\ Len(emitted) = 1
    /\ IsTextResult(emitted[1])
    /\ (/\ line.params.name = "exec_repl"
        /\ line.params.arguments.kind = "mapping"
        /\ line.params.arguments.project_dir.kind = "str"
        /\ line.params.arguments.expression.kind = "absent")
       => emitted[1].result.content[1].text.fmt = "Error: expression parameter is required"

\* C3: every socket send_to_julia_server created is closed by the time the
\* call has returned or raised: outside the blocking readline no socket
\* is open.
C3_ConnectionsAreClosed ==
  pc # "await" => openSocks = 0

\* C4: a tools/call whose params.name is not the name of a registered tool
\* yields the error envelope -32602, and neither a handler nor the backend
\* is touched.
C4_UnknownToolIsInvalidParams ==
  (pc = "next" /\ IsToolsCall(line) /\ ~NamesRegisteredTool(line)) =>
    /\ Len(emitted) = 1
    /\ IsErrorWith(emitted[1], -32602)
    /\ NoBackendAccess

\* C5: a request object whose method is none of initialize,
\* notifications/initialized, tools/list and tools/call (an absent method
\* included) yields the error envelope -32601, and neither a handler nor
\* the backend is touched.
KnownMethods == {"initialize", "notifications/initialized", "tools/list", "tools/call"}

C5_Case == pc = "next" /\ IsRequest(line) /\ line.method \notin KnownMethods

C5_UnknownMethodIsMethodNotFound ==
  C5_Case =>
    /\ Len(emitted) = 1
    /\ IsErrorWith(emitted[1], -32601)
    /\ NoBackendAccess

C5_Witness ==
  /\ C5_Case
  /\ line.method = "absent"
  /\ line.params.kind = "mapping"
  /\ Len(emitted) = 1
  /\ IsErrorWith(emitted[1], -32601)

\* C6: reading a notifications/initialized request writes no output line
\* and opens no backend round trip, and the step after it takes the loop
\* back to reading the next line with the output unchanged.
C6_NotificationIsSilent ==
  [][/\ (pc = "read" /\ IsNotification(line')) =>
          pc' = "next" /\ out' = out /\ emitted' = <<>>
     /\ IsNotification(line) =>
          pc' = "read" /\ out' = out /\ lineNo' = lineNo]_vars

C6_Witness ==
  /\ pc = "next"
  /\ IsNotification(line)
  /\ lineNo = 2
  /\ out = <<1>>
  /\ emitted = <<>>

\* C7: the output lines are in the order of the input lines that caused
\* them: each input line causes at most one output line, a line waiting for
\* the backend has caused none yet, a processed line's response is the last
\* output line, and a line is read only when the one before it is done.
C7_OutputInvariant ==
  /\ \A i, j \in 1..Len(out) : i < j => out[i] < out[j]
  /\ \A i \in 1..Len(out) : out[i] \in 1..lineNo
  /\ Len(emitted) <= 1
  /\ pc = "await" => \A i \in 1..Len(out) : out[i] < lineNo
  /\ pc = "next" =>
       (Len(emitted) = 1 <=> (out # <<>> /\ out[Len(out)] = lineNo))

C7_ResponsesInOrder ==
  /\ []C7_OutputInvariant
  /\ [][lineNo' # lineNo => (pc = "read" /\ lineNo' = lineNo + 1)]_vars

C7_Witness ==
  /\ pc = "next"
  /\ out = <<1, 2>>
  /\ reply.k = "item_text"

\* C8: no line ends the loop: a line that is not JSON yields the error
\* envelope -32700, a line whose dispatch raises (JSON that is not an
\* object, params that is not a mapping) yields -32603, a blank line yields
\* nothing, and the loop is ready to go back to reading.
DispatchRaises(l) ==
  \/ l.kind = "nonobject"
  \/ IsToolsCall(l) /\ l.params.kind = "nonmapping"

C9_LivenessIsBoolean ==
  alive # "unchecked" =>
    /\ alive \in {"True", "False"}
    /\ pidKind \in {"absent", "empty", "nonnumeric", "zero", "negative",
                    "toolarge", "nosuch", "foreign"} => alive = "False"
    /\ alive = "True" => pidKind = "live"

\* C10: find_socket_path terminates and returns the marker of the nearest
\* directory, among the start directory and its ancestors, that has one,
\* and not-found exactly when none of them has one.
Chain(p) == {SubSeq(p, 1, k) : k \in 0..Len(p)}

C10_Expected ==
  LET hits == Chain(abspath(start_dir)) \cap markers
  IN  IF hits = {} THEN <<"None">>
      ELSE LET d == CHOOSE h \in hits : \A e \in hits : Len(e) <= Len(h)
           IN  Append(d, ".mcp-repl.sock")

C10_NearestMarker ==
  pc = "found" => socket_path = C10_Expected

C10_Witness ==
  /\ pc = "found"
  /\ start_dir = [abs |-> FALSE, comps |-> <<"b">>]
  /\ markers = {<<>>, <<"a">>}
  /\ socket_path = <<"a", ".mcp-repl.sock">>

\* C11: when the backend's reply has no error field and its result carries
\* a content list whose first item is {type, text: T}, the tool result is
\* the text T itself, wrapped as a single-element content list of type
\* "text" in a success envelope, for each of the three tools.
C11_TextIsPassedThrough ==
  (pc = "next" /\ NamesRegisteredTool(line) /\ reply.k = "item_text") =>
    /\ Len(emitted) = 1
    /\ IsTextResult(emitted[1])
    /\ emitted[1].result.content[1].text = [fmt |-> "{}", arg |-> <<reply.v>>]

C11_Witness ==
  /\ pc = "next"
  /\ line.kind = "object"
  /\ line.method = "tools/call"
  /\ handler = "investigate_environment"
  /\ reply = [k |-> "item_text", v |-> "2"]
  /\ Len(emitted) = 1
  /\ emitted[1].result.content[1].text.arg = <<"2">>

\* C12: when the backend's reply has no error field and its result lacks
\* the expected shape (no result, a result that is not a mapping, no
\* content, content that is not a list, an empty content list, a first item
\* that is not a mapping, a first item without text), the handler returns
\* the stringified raw result: the unwrapping never faults and never turns
\* into the communication-error message.
MalformedResults ==
  {"result_absent", "result_null", "result_string", "result_list",
   "result_nocontent", "content_notlist", "content_empty",
   "item_notmapping", "item_notext"}

C12_MalformedResultIsStringified ==
  (pc = "next" /\ NamesRegisteredTool(line) /\ reply.k \in MalformedResults) =>
    /\ Len(emitted) = 1
    /\ IsTextResult(emitted[1])
    /\ emitted[1].result.content[1].text.fmt # CommunicationText("").fmt
    /\ reply.k # "result_absent" =>
         emitted[1].result.content[1].text = [fmt |-> "str({result})", arg |-> <<reply.k>>]

\* C13: the backend is resolved afresh on every tool invocation: what a
\* call finds, whether it judges the backend alive and whether its
\* connection is accepted are those of the file system and the backend at
\* the time of that call and of the call's own project_dir, whatever the
\* calls before it found.
C13_Nearest(dir) ==
  LET hits == Chain(abspath(dir)) \cap markers
  IN  IF hits = {} THEN <<"None">>
      ELSE LET d == CHOOSE h \in hits : \A e \in hits : Len(e) <= Len(h)
           IN  Append(d, ".mcp-repl.sock")

C13_Liveness ==
  CASE pidKind \in {"absent", "empty", "nonnumeric", "nosuch", "foreign"} -> {"False"}
    [] pidKind \in {"live", "zero"} -> {"True"}
    [] pidKind = "toolarge" -> {"OverflowError"}
    [] OTHER -> {"True", "False"}

C13_ResolvedAfresh ==
  (pc \in {"await", "next", "crashed"} /\ socket_path # NotLooked) =>
    /\ socket_path = C13_Nearest(line.params.arguments.project_dir.dir)
    /\ alive # "unchecked" => alive \in C13_Liveness
    /\ opened = 1 => ((pc = "await" \/ reply # NoReply) <=> sockState = "listening")

\* the first call connected to a backend (its socket was left open by a
\* refused connection); the backend was removed, and the second call finds none
C13_Witness ==
  /\ pc = "next"
  /\ lineNo = 2
  /\ openSocks = 1
  /\ opened = 0
  /\ markers = {}
  /\ handler = "exec_repl"
  /\ socket_path = <<"None">>

C15_PostErrorStatuses ==
  (pc = "next" /\ content_length # "none") =>
    /\ content_length \in {"missing", "zero"} =>
         /\ status = <<400>>
         /\ Len(emitted) = 1 /\ HasError(emitted[1]) /\ ~HasResult(emitted[1])
         /\ line = NoLine
         /\ NoBackendAccess
    /\ line.kind \in {"blank", "badjson", "undecodable"} =>
         /\ status = <<400>>
         /\ Len(emitted) = 1 /\ IsErrorWith(emitted[1], -32700)
    /\ (content_length = "nonnumeric" \/ line.kind = "nonobject"
          \/ (IsToolsCall(line) /\ line.params.kind = "nonmapping")) =>
         /\ status = <<500>>
         /\ Len(emitted) = 1 /\ IsErrorWith(emitted[1], -32603)
    /\ ENABLED LoopNext

\* C16: a handler validates its arguments, locates the socket, checks
\* liveness and connects, in this order: one tools/call opens at most one
\* backend connection, and only after the required arguments were present,
\* a marker was found and the liveness check returned true; a step that
\* fails ends the handler, so no later step has run.
C16_ArgumentsPresent ==
  /\ NamesRegisteredTool(line)
  /\ line.params.arguments.kind = "mapping"
  /\ line.params.arguments.project_dir.kind \in {"str", "nonstr"}
  /\ handler = "exec_repl" => line.params.arguments.expression.kind \in {"str", "nonstr"}

C16_StepsInOrder ==
  /\ opened <= 1
  /\ socket_path # NotLooked => C16_ArgumentsPresent
  /\ alive # "unchecked" => socket_path \notin {NotLooked, <<"None">>}
  /\ opened = 1 => alive = "True"
  /\ sent # NoRequest => opened = 1

C16_Witness ==
  /\ pc = "await"
  /\ handler = "exec_repl"
  /\ socket_path = <<"a", ".mcp-repl.sock">>
  /\ alive = "True"
  /\ opened = 1

\* C17: the request forwarded to the backend is determined by the tool
\* alone: its method is tools/call, its id is the same constant for every
\* call, params.name is the tool's own operation, exec_repl forwards exactly
\* {expression} with the caller's value unchanged, the other two tools
\* forward empty arguments, and project_dir is never forwarded.
C17_ForwardedRequest ==
  sent # NoRequest =>
    /\ sent.id = 1
    /\ sent.method = "tools/call"
    /\ sent.name = line.params.name
    /\ sent.name \in {"exec_repl", "investigate_environment", "usage_instructions"}
    /\ sent.arguments =
         IF line.params.name = "exec_repl"
         THEN {[key |-> "expression", val |-> line.params.arguments.expression]}
         ELSE {}
    /\ \A a \in sent.arguments : a.key # "project_dir"

C17_Witness ==
  /\ pc = "await"
  /\ line.params.name = "exec_repl"
  /\ line.params.arguments.project_dir.kind = "str"
  /\ sent.arguments = {[key |-> "expression", val |-> [kind |-> "str", val |-> "x = 2"]]}

\* C18: the transport client fails with one and the same kind of fault in
\* its three failure cases (the connection is refused, the connection closes
\* before a line arrives, the line is not parseable): it returns no
\* response, and the handler delivers a success result whose text is the
\* communication-error message embedding that fault.  The kind is the one
\* the refused connection raises.
C18_OneKindOfFault ==
  (pc = "next" /\ ((opened = 1 /\ sockState = "stale") \/ reply.k \in {"close", "garbage"})) =>
    /\ sendResult = "raised"
    /\ Len(emitted) = 1
    /\ IsTextResult(emitted[1])
    /\ emitted[1].result.content[1].text =
         [fmt |-> "Error communicating with Julia server: {e}",
          arg |-> <<"Exception: Socket error">>]

\* C19: every response envelope emitted for an input that parsed as a JSON
\* object carries the id of the request that caused it (null when the
\* request has none) and exactly one of result and error, on every path,
\* tools/call with params or arguments that are not mappings included.
C19_RequestIdIsEchoed ==
  (pc = "next" /\ line.kind = "object") =>
    \A i \in 1..Len(emitted) :
      /\ emitted[i].id = (IF line.id = "absent" THEN "null" ELSE line.id)
      /\ HasResult(emitted[i]) # HasError(emitted[i])

\* C20: in stdio mode, when every backend round trip ends, every input
\* line that is neither blank nor the notification yields exactly one
\* output line, a request waiting for the backend is answered in the end,
\* and the adapter stops for good once standard input is at its end; while
\* the backend has not answered, nothing is printed for the request and no
\* later line is read.
C20_OneOutputLine ==
  (pc = "next" /\ line.kind # "blank" /\ ~IsNotification(line)) =>
    /\ Len(emitted) = 1
    /\ out # <<>> /\ out[Len(out)] = lineNo
    /\ \A i \in 1..(Len(out) - 1) : out[i] # lineNo

C20_Waiting ==
  pc = "await" =>
    /\ emitted = <<>>
    /\ \A i \in 1..Len(out) : out[i] # lineNo

====
